---- MODULE Spec2Model ----
(***************************************************************************)
(* camera/core/detection.py of Synch.Live: the colour detector             *)
(* (detect_colour), the logger (log_detected), the annotator               *)
(* (draw_annotations, draw_bbox) and the blob detector (detect_blobs).     *)
(*                                                                         *)
(* A frame handed to detect_colour is a grid of BGR pixels.  The model     *)
(* uses frames of two rows and FrameW columns: on such a strip every       *)
(* pixel touches the image border, so there are no hole contours, and the  *)
(* connected components, their areas and their bounding rectangles have    *)
(* the closed forms given at FindContours, ContourArea2 and BoundingRect.  *)
(* The OpenCV primitives are modelled pixel by pixel from their            *)
(* documented behaviour.                                                   *)
(***************************************************************************)
EXTENDS Integers, Sequences, FiniteSets, TLC

VARIABLES
    frames,   \* the captured frames the caller holds: frame id -> pixel grid
    cfg,      \* the detection parameters the caller is configured with
    heap,     \* frame buffers handed to the annotator: reference -> buffer
    boxlist,  \* the caller's list of boxes (a Python list object)
    call,     \* the most recent call: function name and arguments at entry
    ret,      \* what that call returned
    trace,    \* the side effects of that call, in program order
    memo      \* history: one earlier detect_colour call and its result

vars == <<frames, cfg, heap, boxlist, call, ret, trace, memo>>

(***************************************************************************)
(* Bounds of the model                                                     *)
(***************************************************************************)
FrameW == 3        \* columns of a detection frame
MaxBoxes == 2      \* longest box list handed to the logger / annotator
MaxAnnot == 2      \* annotate calls per frame buffer

Rows == {0, 1}
Cols == 0 .. (FrameW - 1)
Pos == Rows \X Cols

Black == <<0, 0, 0>>
Green == <<0, 255, 0>>
Red == <<0, 0, 255>>
Palette == {Black, Green, Red}

AllFrames == [Pos -> Palette]

(***************************************************************************)
(* Module constants, detection.py lines 14-17                              *)
(***************************************************************************)
MIN_DETECT_HSV == <<50, 100, 140>>
MAX_DETECT_HSV == <<85, 255, 255>>
MIN_DETECT_CONTOUR == 100
MAX_DETECT_CONTOUR == 400

\* Ranges a caller may pass instead of the defaults: a red band.
HsvRanges == { <<MIN_DETECT_HSV, MAX_DETECT_HSV>>,
               << <<0, 100, 100>>, <<10, 255, 255>> >> }
\* Contour-area bounds a caller may pass: the defaults and small ones that the
\* contours of a two-row strip can meet, miss from below and miss from above.
ContourBounds == { <<MIN_DETECT_CONTOUR, MAX_DETECT_CONTOUR>>,
                   <<0, 1>>, <<1, MAX_DETECT_CONTOUR>> }

(***************************************************************************)
(* Helpers                                                                 *)
(***************************************************************************)
Max2(a, b) == IF a >= b THEN a ELSE b
Min2(a, b) == IF a <= b THEN a ELSE b
SetMax(S) == CHOOSE m \in S : \A n \in S : n <= m
SetMin(S) == CHOOSE m \in S : \A n \in S : m <= n

\* An image is an array whose pixels are all computed when the primitive
\* returns: the comparison makes the function's values be computed once.
Array(f) == IF f = f THEN f ELSE f

(***************************************************************************)
(* cv2.cvtColor(frame, cv2.COLOR_BGR2HSV), 8-bit: V = max, S = 255*(V-min)/V,*)
(* H = 30*(sector offset)/(V-min) in half degrees, rounded, +180 if        *)
(* negative.                                                               *)
(***************************************************************************)
PixelHSV(px) ==
    LET b == px[1]
        g == px[2]
        r == px[3]
        v == Max2(b, Max2(g, r))
        mn == Min2(b, Min2(g, r))
        diff == v - mn
        s == IF v = 0 THEN 0 ELSE (2 * 255 * diff + v) \div (2 * v)
        hu == IF v = r THEN g - b
              ELSE IF v = g THEN b - r + 2 * diff
              ELSE r - g + 4 * diff
        h0 == IF diff = 0 THEN 0 ELSE (60 * hu + diff) \div (2 * diff)
        h == IF h0 < 0 THEN h0 + 180 ELSE h0
    IN <<h, s, v>>

CvtColorBGR2HSV(frame) == Array([p \in Pos |-> PixelHSV(frame[p])])

(***************************************************************************)
(* cv2.inRange: 255 where every channel lies within the inclusive bounds.  *)
(***************************************************************************)
InRange(hsv_frame, min_hsv, max_hsv) ==
    Array([p \in Pos |->
        IF \A k \in 1..3 : /\ min_hsv[k] <= hsv_frame[p][k]
                           /\ hsv_frame[p][k] <= max_hsv[k]
        THEN 255 ELSE 0])

(***************************************************************************)
(* kernel = np.ones((5, 5)); cv2.dilate: the maximum over the kernel       *)
(* window centred on the pixel, pixels outside the image ignored.          *)
(***************************************************************************)
KernelSize == 5

Dilate(mask) ==
    LET rad == (KernelSize - 1) \div 2
        Window(p) == {q \in Pos : /\ q[1] - p[1] \in -rad .. rad
                                  /\ q[2] - p[2] \in -rad .. rad}
    IN Array([p \in Pos |-> SetMax({mask[q] : q \in Window(p)})])

(***************************************************************************)
(* cv2.bitwise_and(frame, frame, mask = green_mask): the pixel where the   *)
(* mask is non-zero, zero elsewhere (the output array is new).             *)
(***************************************************************************)
\* Variant: the mask is not applied.
BitwiseAndUnmasked(frame, mask) == frame

\* line 195
BitwiseAnd(frame, mask) ==
    Array([p \in Pos |-> IF mask[p] # 0 THEN frame[p] ELSE Black])

(***************************************************************************)
(* cv2.cvtColor(res, cv2.COLOR_BGR2GRAY): 0.299 R + 0.587 G + 0.114 B in   *)
(* 14-bit fixed point, rounded.                                            *)
(***************************************************************************)
CvtColorBGR2GRAY(img) ==
    Array([p \in Pos |->
        (1868 * img[p][1] + 9617 * img[p][2] + 4899 * img[p][3] + 8192)
            \div 16384])

(***************************************************************************)
(* cv2.findContours(res, RETR_TREE, CHAIN_APPROX_SIMPLE).  Non-zero pixels *)
(* are foreground, joined by 8-connectivity.  On a two-row strip two       *)
(* foreground pixels in neighbouring columns always touch, so a component  *)
(* is a maximal run of columns that hold a foreground pixel; a contour is  *)
(* represented by the pixels of its component.  The border scan runs in    *)
(* raster order and the library lists the border found last first.         *)
(***************************************************************************)
Foreground(gray) == {p \in Pos : gray[p] # 0}

ColsOf(S) == {p[2] : p \in S}

Components(gray) ==
    LET fg == Foreground(gray)
        cs == ColsOf(fg)
        Starts == {c \in cs : (c - 1) \notin cs}
        EndOf(a) == SetMin({c \in cs : c >= a /\ (c + 1) \notin cs})
    IN {{p \in fg : p[2] >= a /\ p[2] <= EndOf(a)} : a \in Starts}

\* Raster index of the pixel at which the scan meets the component.
ScanKey(comp) == SetMin({p[1] * FrameW + p[2] : p \in comp})

RECURSIVE LastFoundFirst(_)
LastFoundFirst(comps) ==
    IF comps = {} THEN <<>>
    ELSE LET c == CHOOSE x \in comps : \A y \in comps : ScanKey(y) <= ScanKey(x)
         IN <<c>> \o LastFoundFirst(comps \ {c})

FindContours(gray) == LastFoundFirst(Components(gray))

(***************************************************************************)
(* cv2.contourArea: the area of the polygon through the border pixels'     *)
(* centres, here doubled to stay in the integers.  Between two neighbouring*)
(* columns the polygon encloses a unit square when all four pixels are     *)
(* foreground, half of it when three are, nothing otherwise.               *)
(***************************************************************************)
RECURSIVE SumOver(_, _)
SumOver(S, f) ==
    IF S = {} THEN 0
    ELSE LET x == CHOOSE y \in S : TRUE IN f[x] + SumOver(S \ {x}, f)

ContourArea2(contour) ==
    LET cs == ColsOf(contour)
        Cells == {c \in cs : (c + 1) \in cs}
        On(c) == Cardinality({p \in contour : p[2] = c \/ p[2] = c + 1})
        cell2 == [c \in Cells |-> IF On(c) = 4 THEN 2
                                  ELSE IF On(c) = 3 THEN 1 ELSE 0]
    IN SumOver(Cells, cell2)

(***************************************************************************)
(* cv2.boundingRect: (x, y, w, h) of the smallest upright rectangle that   *)
(* holds the contour's pixels.                                             *)
(***************************************************************************)
BoundingRect(contour) ==
    LET xs == {p[2] : p \in contour}
        ys == {p[1] : p \in contour}
    IN <<SetMin(xs), SetMin(ys),
         SetMax(xs) - SetMin(xs) + 1, SetMax(ys) - SetMin(ys) + 1>>

(***************************************************************************)
(* log_detected, lines 28-31: one logging.info call per box, numbered from *)
(* 1, then the count.  str() of a tuple of ints is "(x, y, w, h)".         *)
(***************************************************************************)
TupleStr(box) ==
    "(" \o ToString(box[1]) \o ", " \o ToString(box[2]) \o ", "
        \o ToString(box[3]) \o ", " \o ToString(box[4]) \o ")"

\* Variant: the boxes numbered from 0.
BoxLineZeroBased(i, box) == ToString(i) \o ", " \o TupleStr(box)

\* line 29, i the index enumerate() yields (from 0)
BoxLine(i, box) == ToString(i + 1) \o ", " \o TupleStr(box)

\* line 31
FoundLine(boxes) == "Found " \o ToString(Len(boxes)) \o " blobs in frame."

LogDetectedLines(boxes) ==
    [k \in 1 .. Len(boxes) |-> BoxLine(k - 1, boxes[k])]
        \o <<FoundLine(boxes)>>

LogInfo(msg) == [fn |-> "logging.info", arg |-> msg]

LogDetectedEffects(boxes) ==
    LET lines == LogDetectedLines(boxes)
    IN [k \in 1 .. Len(lines) |-> LogInfo(lines[k])]

(***************************************************************************)
(* detect_colour, lines 205-213: the loop over the contours.               *)
(***************************************************************************)
\* Variant: no upper bound.
AreaLowerOnly(area2, min_contour, max_contour) == area2 >= 2 * min_contour

\* line 209: box >= min_contour and box <= max_contour, box the contour area
\* (area2 is twice the area)
AreaInRange(area2, min_contour, max_contour) ==
    /\ area2 >= 2 * min_contour
    /\ area2 <= 2 * max_contour

\* Variant: both bounds required.
AspectBoth(w, h) == 10 * w >= 8 * h /\ 10 * w <= 12 * h

\* line 212: w / h >= 0.8 or w / h <= 1.2 (true division, h >= 1)
AspectOk(w, h) == 10 * w >= 8 * h \/ 10 * w <= 12 * h

\* Variant: the list outlives the call and still holds the last result.
KeptBBoxes == IF ret.tag = "boxes" THEN ret.val ELSE <<>>

\* line 205: bboxes = []
NewBBoxes == <<>>

RECURSIVE ContourLoop(_, _, _, _)
ContourLoop(contours, min_contour, max_contour, bboxes) ==
    IF contours = <<>> THEN bboxes
    ELSE LET contour == Head(contours)
             box == ContourArea2(contour)
             rect == BoundingRect(contour)
             keep == /\ AreaInRange(box, min_contour, max_contour)
                     /\ AspectOk(rect[3], rect[4])
         IN ContourLoop(Tail(contours), min_contour, max_contour,
                        IF keep THEN Append(bboxes, rect) ELSE bboxes)

(***************************************************************************)
(* detect_colour, lines 179-203: from the frame to the contours.           *)
(***************************************************************************)
GreenMask(frame, min_hsv, max_hsv) ==
    InRange(CvtColorBGR2HSV(frame), min_hsv, max_hsv)

MaskedFrame(frame, min_hsv, max_hsv) ==
    BitwiseAnd(frame, Dilate(GreenMask(frame, min_hsv, max_hsv)))

ContoursOf(frame, min_hsv, max_hsv) ==
    FindContours(CvtColorBGR2GRAY(MaskedFrame(frame, min_hsv, max_hsv)))

ImWrite(name, img) == [fn |-> "cv2.imwrite", arg |-> name, img |-> img]

\* Variant: log_detected runs before the images are written.
EffectsLogFirst(frame, min_hsv, max_hsv, dump, bboxes) ==
    LET hsv_frame == CvtColorBGR2HSV(frame)
        green_mask == InRange(hsv_frame, min_hsv, max_hsv)
    IN LogDetectedEffects(bboxes)
       \o (IF dump THEN <<ImWrite("hsv_frame.jpg", hsv_frame),
                          ImWrite("green_mask.jpg", green_mask),
                          ImWrite("green_mask_dilated.jpg", Dilate(green_mask)),
                          ImWrite("img_masked.jpg",
                                  BitwiseAnd(frame, Dilate(green_mask)))>>
           ELSE <<>>)

\* The I/O calls of one detect_colour call in program order: lines 184-186,
\* 192-193, 196-197, then log_detected at line 215.
DetectColourEffects(frame, min_hsv, max_hsv, dump, bboxes) ==
    LET hsv_frame == CvtColorBGR2HSV(frame)
        green_mask == InRange(hsv_frame, min_hsv, max_hsv)
        dilated == Dilate(green_mask)
        res == BitwiseAnd(frame, dilated)
    IN (IF dump THEN <<ImWrite("hsv_frame.jpg", hsv_frame),
                       ImWrite("green_mask.jpg", green_mask)>>
        ELSE <<>>)
       \o (IF dump THEN <<ImWrite("green_mask_dilated.jpg", dilated)>>
           ELSE <<>>)
       \o (IF dump THEN <<ImWrite("img_masked.jpg", res)>> ELSE <<>>)
       \o LogDetectedEffects(bboxes)

(***************************************************************************)
(* A failing write.  cv2.imwrite reports failure by returning False, which *)
(* lines 185-197 discard; logging.info hands a handler's error to          *)
(* Handler.handleError and returns.  Neither ends the call.                *)
(***************************************************************************)
\* Variant: a failed image write raises.
FailedWriteRaises(effect) == effect.fn = "cv2.imwrite"

\* lines 185-197, 29, 31: no failing write ends the call
FailedIOEndsCall(effect) == FALSE

\* `failed` is the position of the one I/O call that fails, 0 for none.
Perform(effects, failed) ==
    LET stop == failed \in 1 .. Len(effects) /\ FailedIOEndsCall(effects[failed])
        n == IF stop THEN failed ELSE Len(effects)
    IN [raised |-> stop,
        trace |-> [k \in 1 .. n |->
                     [fn |-> effects[k].fn, arg |-> effects[k].arg,
                      ok |-> k # failed]]]

Raised == [tag |-> "raised", val |-> <<>>]
None == [tag |-> "None", val |-> <<>>]
BoxesValue(bboxes) == [tag |-> "boxes", val |-> bboxes]
FrameValue(ref) == [tag |-> "frame", val |-> ref]

DetectColourRun(frame, min_hsv, max_hsv, min_contour, max_contour, dump, failed) ==
    LET contours == ContoursOf(frame, min_hsv, max_hsv)
        bboxes == ContourLoop(contours, min_contour, max_contour, NewBBoxes)
        io == Perform(DetectColourEffects(frame, min_hsv, max_hsv, dump, bboxes),
                      failed)
    IN [ret |-> IF io.raised THEN Raised ELSE BoxesValue(bboxes),
        trace |-> io.trace]

NumEffects(frame, min_hsv, max_hsv, min_contour, max_contour, dump) ==
    Len(DetectColourRun(frame, min_hsv, max_hsv, min_contour, max_contour,
                        dump, 0).trace)

(***************************************************************************)
(* draw_bbox, lines 56-63, and draw_annotations, lines 85-94.  A frame     *)
(* buffer is its shape (height, width) and the drawing calls applied to    *)
(* its pixels so far, oldest first.  cv2.rectangle and cv2.putText draw on *)
(* the array they are given and return that same array.                    *)
(***************************************************************************)
White == <<255, 255, 255>>

Rectangle(buf, rec, color, thickness) ==
    [buf EXCEPT !.drawn = Append(@, [fn |-> "cv2.rectangle", rec |-> rec,
                                     color |-> color, thickness |-> thickness])]

PutText(buf, text, org, color, thickness) ==
    [buf EXCEPT !.drawn = Append(@, [fn |-> "cv2.putText", text |-> text,
                                     org |-> org, color |-> color,
                                     thickness |-> thickness])]

\* lines 56-63
DrawBBox(frame, player, rect) ==
    PutText(Rectangle(frame, rect, Green, 2),
            "Player" \o ToString(player), <<rect[1], rect[2]>>, Green, 1)

\* strftime("%y-%m-%d %H:%M:%S"): each field as two decimal digits
Pad2(n) == ToString((n \div 10) % 10) \o ToString(n % 10)

Strftime(t) ==
    Pad2(t.year % 100) \o "-" \o Pad2(t.month) \o "-" \o Pad2(t.day) \o " "
        \o Pad2(t.hour) \o ":" \o Pad2(t.minute) \o ":" \o Pad2(t.second)

\* Variant: the width taken for the height.
TimestampOrgByWidth(shape) == <<10, shape[2] - 10>>

\* line 87: (10, frame.shape[0] - 10)
TimestampOrg(shape) == <<10, shape[1] - 10>>

\* Variant: the players numbered from 0.
PlayerFromZero(i) == i

\* line 92: i + 1, i the index enumerate() yields (from 0)
PlayerNumber(i) == i + 1

\* line 92: tuple([int(x) for x in box]); the boxes are tuples of Python ints,
\* of which int() returns the value.
IntTuple(box) == [k \in 1 .. Len(box) |-> box[k]]

RECURSIVE DrawLoop(_, _, _)
DrawLoop(frame, boxes, i) ==
    IF i >= Len(boxes) THEN frame
    ELSE DrawLoop(DrawBBox(frame, PlayerNumber(i), IntTuple(boxes[i + 1])),
                  boxes, i + 1)

DrawAnnotationsRun(frame, boxes, now) ==
    DrawLoop(PutText(frame, Strftime(now), TimestampOrg(frame.shape), White, 1),
             boxes, 0)

\* The buffer that ends up holding the drawing, as a reference into the heap.
\* Variant: a new buffer, the caller's left alone.
CopyOf(ref) == SetMax(DOMAIN heap) + 1

\* lines 57, 59, 86: the drawing goes to the caller's array itself
DrawnOn(ref) == ref

(***************************************************************************)
(* Inputs of the logger and the annotator                                  *)
(***************************************************************************)
Boxes == { <<0, 0, 1, 1>>, <<10, 20, 30, 40>>, <<7, 3, 12, 15>> }
BoxSeqs == UNION {[1 .. n -> Boxes] : n \in 0 .. MaxBoxes}
Shapes == { <<480, 640>>, <<240, 320>> }
Times == { [year |-> 2023, month |-> 1, day |-> 9,
            hour |-> 7, minute |-> 5, second |-> 0],
           [year |-> 2024, month |-> 12, day |-> 31,
            hour |-> 23, minute |-> 59, second |-> 58] }
Refs == {1, 2}
FreshBuffers == [shape : Shapes, drawn : {<<>>}]

\* Calls of draw_annotations a buffer has received.
Stamps(buf) ==
    Cardinality({k \in 1 .. Len(buf.drawn) :
                    /\ buf.drawn[k].fn = "cv2.putText"
                    /\ buf.drawn[k].color = White})

(***************************************************************************)
(* Calls                                                                   *)
(***************************************************************************)
NoCall == [fn |-> "none"]
NoRet == [tag |-> "none", val |-> <<>>]
NoMemo == [set |-> FALSE]
Remembered(args, value) ==
    [set |-> TRUE, args |-> args, ret |-> value, stamps |-> Stamps(heap[1])]

DetectArgs(frame, min_hsv, max_hsv, min_contour, max_contour) ==
    [frame |-> frame, min_hsv |-> min_hsv, max_hsv |-> max_hsv,
     min_contour |-> min_contour, max_contour |-> max_contour]

DetectColour(id, min_hsv, max_hsv, min_contour, max_contour, dump, failed, remember) ==
    LET frame == frames[id]
        run == DetectColourRun(frame, min_hsv, max_hsv, min_contour,
                               max_contour, dump, failed)
        args == DetectArgs(frame, min_hsv, max_hsv, min_contour, max_contour)
    IN /\ call' = [fn |-> "detect_colour", args |-> args,
                   dump |-> dump, failed |-> failed]
       /\ ret' = run.ret
       /\ trace' = run.trace
       /\ memo' = IF remember THEN Remembered(args, run.ret) ELSE memo
       /\ UNCHANGED <<frames, cfg, heap, boxlist>>

LogDetected(failed) ==
    /\ call' = [fn |-> "log_detected", boxes |-> boxlist, failed |-> failed]
    /\ ret' = None
    /\ trace' = Perform(LogDetectedEffects(boxlist), failed).trace
    /\ UNCHANGED <<frames, cfg, heap, boxlist, memo>>

DrawAnnotations(ref, now) ==
    LET target == DrawnOn(ref)
        out == DrawAnnotationsRun(heap[ref], boxlist, now)
    IN /\ Stamps(heap[ref]) < MaxAnnot
       /\ call' = [fn |-> "draw_annotations", ref |-> ref, before |-> heap,
                   boxes |-> boxlist, now |-> now]
       /\ heap' = [r \in DOMAIN heap \cup {target} |->
                     IF r = target THEN out ELSE heap[r]]
       /\ ret' = FrameValue(target)
       /\ trace' = <<>>
       /\ UNCHANGED <<frames, cfg, boxlist, memo>>

(***************************************************************************)
(* detect_blobs, lines 122-142.  bitwise_not, the detector and the list    *)
(* comprehension work on new objects: no frame, no parameter and no log    *)
(* is written.  What SimpleBlobDetector finds, and what boundingRect makes *)
(* of a KeyPoint, is the library's: the outcome is left open.              *)
(***************************************************************************)
BlobOutcomes == {Raised, BoxesValue(<<>>), BoxesValue(<< <<0, 0, 1, 1>> >>)}

DetectBlobs(id, min_area, max_area, outcome) ==
    /\ call' = [fn |-> "detect_blobs",
                args |-> [frame |-> frames[id], min_area |-> min_area,
                          max_area |-> max_area]]
    /\ ret' = outcome
    /\ trace' = <<>>
    /\ UNCHANGED <<frames, cfg, heap, boxlist, memo>>

(***************************************************************************)
(* Spec: one detect_colour call per captured frame and configuration, all  *)
(* writes succeeding.                                                      *)
(***************************************************************************)
Configs == [hsv : HsvRanges, cont : ContourBounds]
DefaultConfig == [hsv |-> <<MIN_DETECT_HSV, MAX_DETECT_HSV>>,
                  cont |-> <<MIN_DETECT_CONTOUR, MAX_DETECT_CONTOUR>>]
BlackFrame == [p \in Pos |-> Black]
OneBuffer == [r \in {1} |-> [shape |-> <<480, 640>>, drawn |-> <<>>]]

InitCommon ==
    /\ call = NoCall
    /\ ret = NoRet
    /\ trace = <<>>
    /\ memo = NoMemo

Init ==
    /\ frames \in [{1} -> AllFrames]
    /\ cfg \in Configs
    /\ heap = OneBuffer
    /\ boxlist = <<>>
    /\ InitCommon

DetectConfigured ==
    /\ call = NoCall
    /\ \E dump \in BOOLEAN :
          DetectColour(1, cfg.hsv[1], cfg.hsv[2], cfg.cont[1], cfg.cont[2],
                       dump, 0, FALSE)

Next == DetectConfigured

Spec == Init /\ [][Next]_vars

(***************************************************************************)
(* SpecIO: detect_colour with and without dump, with one write failing.    *)
(***************************************************************************)
\* Frames whose two rows are equal.
StripedFrames == {f \in AllFrames : \A c \in Cols : f[<<0, c>>] = f[<<1, c>>]}

InitIO ==
    /\ frames \in [{1} -> StripedFrames]
    /\ cfg \in Configs
    /\ heap = OneBuffer
    /\ boxlist = <<>>
    /\ InitCommon

DetectWithIO ==
    \E dump \in BOOLEAN :
        \E failed \in 0 .. NumEffects(frames[1], cfg.hsv[1], cfg.hsv[2],
                                      cfg.cont[1], cfg.cont[2], dump) :
            DetectColour(1, cfg.hsv[1], cfg.hsv[2], cfg.cont[1], cfg.cont[2],
                         dump, failed, FALSE)

NextIO == DetectWithIO

SpecIO == InitIO /\ [][NextIO]_vars

(***************************************************************************)
(* SpecAnnot: the logger and the annotator on the caller's box list and    *)
(* frame buffers.                                                          *)
(***************************************************************************)
InitAnnot ==
    /\ frames = [i \in {1} |-> BlackFrame]
    /\ cfg = DefaultConfig
    /\ heap \in [Refs -> FreshBuffers]
    /\ boxlist \in BoxSeqs
    /\ InitCommon

LogBoxes == \E failed \in 0 .. (Len(boxlist) + 1) : LogDetected(failed)

Annotate == \E ref \in DOMAIN heap : \E now \in Times : DrawAnnotations(ref, now)

NextAnnot == LogBoxes \/ Annotate

SpecAnnot == InitAnnot /\ [][NextAnnot]_vars

(***************************************************************************)
(* SpecHist: all four functions called in any order on two frames, one     *)
(* earlier detect_colour call remembered.                                  *)
(***************************************************************************)
HistFrames ==
    { [p \in Pos |-> Green], [p \in Pos |-> Red],
      [p \in Pos |-> IF p[2] = 0 THEN Green ELSE Black] }
HistContourBounds == { <<0, 1>>, <<1, MAX_DETECT_CONTOUR>> }

HistTime == CHOOSE t \in Times : t.year = 2023

InitHist ==
    /\ frames \in [{1, 2} -> HistFrames]
    /\ cfg = DefaultConfig
    /\ heap = OneBuffer
    /\ boxlist = << <<0, 0, 1, 1>> >>
    /\ InitCommon

DetectAny ==
    \E id \in DOMAIN frames : \E hr \in HsvRanges : \E cb \in HistContourBounds :
        \E remember \in BOOLEAN :
            DetectColour(id, hr[1], hr[2], cb[1], cb[2], FALSE, 0, remember)

BlobsAny ==
    \E id \in DOMAIN frames : \E outcome \in BlobOutcomes :
        DetectBlobs(id, MIN_DETECT_CONTOUR, MAX_DETECT_CONTOUR, outcome)

LogHist == LogDetected(0)

AnnotateHist == DrawAnnotations(1, HistTime)

NextHist == DetectAny \/ BlobsAny \/ LogHist \/ AnnotateHist

SpecHist == InitHist /\ [][NextHist]_vars

(***************************************************************************)
(* Properties                                                              *)
(***************************************************************************)
Range(seq) == {seq[k] : k \in 1 .. Len(seq)}

DetectDone == call.fn = "detect_colour"

\* The contours detect_colour's loop ran over in the most recent call.
CallContours ==
    ContoursOf(call.args.frame, call.args.min_hsv, call.args.max_hsv)

AreaOnlyBoxes(contours, lo, hi) ==
    LET Within(c) == 2 * lo <= ContourArea2(c) /\ ContourArea2(c) <= 2 * hi
        kept == SelectSeq(contours, Within)
    IN [k \in 1 .. Len(kept) |-> BoundingRect(kept[k])]

LogArgs(t) ==
    LET logs == SelectSeq(t, LAMBDA e : e.fn = "logging.info")
    IN [k \in 1 .. Len(logs) |-> logs[k].arg]

\* No pixel of the call's frame has an HSV value inside [min_hsv, max_hsv].
NoPixelInRange ==
    \A p \in Pos :
        \E k \in 1 .. 3 :
            \/ PixelHSV(call.args.frame[p])[k] < call.args.min_hsv[k]
            \/ PixelHSV(call.args.frame[p])[k] > call.args.max_hsv[k]

\* C8: on a frame with no pixel inside the HSV range the mask and the dilated
\* mask are all off, the masked frame is all zero, no contour is found,
\* detect_colour returns the empty sequence and logs only the count line.
C8_OutOfRangeFrameIsEmpty ==
    (DetectDone /\ NoPixelInRange) =>
        LET green_mask == GreenMask(call.args.frame, call.args.min_hsv,
                                    call.args.max_hsv)
            dilated == Dilate(green_mask)
            res == MaskedFrame(call.args.frame, call.args.min_hsv,
                               call.args.max_hsv)
        IN /\ \A p \in Pos : /\ green_mask[p] = 0
                              /\ dilated[p] = 0
                              /\ res[p] = Black
           /\ CallContours = <<>>
           /\ ret = [tag |-> "boxes", val |-> <<>>]
           /\ LogArgs(trace) = <<"Found 0 blobs in frame.">>

\* A frame that is red all over, searched for green with an area range that a
\* red contour would meet.
C8_Witness ==
    /\ DetectDone
    /\ NoPixelInRange
    /\ \A p \in Pos : call.args.frame[p] = Red
    /\ call.args.min_contour = 1
    /\ ret.tag = "boxes"
    /\ ret.val = <<>>

DumpNames ==
    <<"hsv_frame.jpg", "green_mask.jpg", "green_mask_dilated.jpg",
      "img_masked.jpg">>

LogDone == call.fn = "log_detected"

\* C3: for N boxes log_detected emits N+1 log lines: "i, (x, y, w, h)" for
\* the i-th box, i = 1..N, in input order, then "Found N blobs in frame.";
\* for no box that one line alone; the caller's list is left as it was.
C3_LogLines ==
    LogDone =>
        LET n == Len(call.boxes)
        IN /\ Len(trace) = n + 1
           /\ \A k \in 1 .. (n + 1) : trace[k].fn = "logging.info"
           /\ \A i \in 1 .. n :
                 trace[i].arg =
                     ToString(i) \o ", (" \o ToString(call.boxes[i][1])
                         \o ", " \o ToString(call.boxes[i][2])
                         \o ", " \o ToString(call.boxes[i][3])
                         \o ", " \o ToString(call.boxes[i][4]) \o ")"
           /\ trace[n + 1].arg = "Found " \o ToString(n) \o " blobs in frame."
           /\ n = 0 => LogArgs(trace) = <<"Found 0 blobs in frame.">>
           /\ boxlist = call.boxes

\* Two different boxes were logged.
C3_Witness ==
    /\ LogDone
    /\ Len(call.boxes) = 2
    /\ call.boxes[1] # call.boxes[2]
    /\ Len(trace) = 3

DrawDone == call.fn = "draw_annotations"

\* What the buffer handed to the most recent draw_annotations call held at
\* entry, and what the returned buffer holds.
DrawnBefore == call.before[call.ref].drawn
DrawnAfter == heap[ret.val].drawn

\* C4: for N boxes draw_annotations performs N rectangle-plus-label steps in
\* input order, the k-th a rectangle at the k-th box's (x, y, w, h) and the
\* label "Player{k}" at its (x, y): the number is the box's position.
C4_PlayerLabels ==
    DrawDone =>
        LET n == Len(call.boxes)
            base == Len(DrawnBefore) + 1
        IN /\ Len(DrawnAfter) = base + 2 * n
           /\ \A k \in 1 .. n :
                 /\ DrawnAfter[base + 2 * k - 1].fn = "cv2.rectangle"
                 /\ DrawnAfter[base + 2 * k - 1].rec = call.boxes[k]
                 /\ DrawnAfter[base + 2 * k].fn = "cv2.putText"
                 /\ DrawnAfter[base + 2 * k].text = "Player" \o ToString(k)
                 /\ DrawnAfter[base + 2 * k].org
                       = <<call.boxes[k][1], call.boxes[k][2]>>

\* Two boxes with the same coordinates were drawn.
C4_Witness ==
    /\ DrawDone
    /\ Len(call.boxes) = 2
    /\ call.boxes[1] = call.boxes[2]
    /\ Len(DrawnAfter) = Len(DrawnBefore) + 5

\* C5: draw_annotations draws the timestamp text once, at (10, H - 10) for a
\* frame of height H, before any box, also for no box at all, and the frame
\* it returns has the height and width of the frame it was given.
C5_TimestampOnce ==
    DrawDone =>
        LET base == Len(DrawnBefore) + 1
            shape == call.before[call.ref].shape
            IsStamp(k) == /\ DrawnAfter[k].fn = "cv2.putText"
                          /\ DrawnAfter[k].text = Strftime(call.now)
        IN /\ Len(DrawnAfter) >= base
           /\ IsStamp(base)
           /\ DrawnAfter[base].org = <<10, shape[1] - 10>>
           /\ \A k \in (base + 1) .. Len(DrawnAfter) : ~IsStamp(k)
           /\ heap[ret.val].shape = shape

\* No box at all, on a frame that is wider than high.
C5_Witness ==
    /\ DrawDone
    /\ call.boxes = <<>>
    /\ call.before[call.ref].shape = <<480, 640>>
    /\ Len(DrawnAfter) = Len(DrawnBefore) + 1

\* C6 as claimed: after draw_annotations the caller's input frame holds what
\* it held before the call, and the boxes are unchanged.
C6_InputFrameUntouched ==
    DrawDone =>
        /\ heap[call.ref] = call.before[call.ref]
        /\ boxlist = call.boxes

\* C6 as amended: draw_annotations draws on the caller's frame itself and
\* returns it: the returned frame is the input frame, which holds what it held
\* before followed by the timestamp and the N rectangles and labels; no other
\* frame changes, the boxes are unchanged, nothing is logged or written.
C6_DrawsInPlace ==
    DrawDone =>
        LET n == Len(call.boxes)
        IN /\ ret = [tag |-> "frame", val |-> call.ref]
           /\ DOMAIN heap = DOMAIN call.before
           /\ \A r \in DOMAIN heap \ {call.ref} : heap[r] = call.before[r]
           /\ heap[call.ref].shape = call.before[call.ref].shape
           /\ Len(DrawnAfter) = Len(DrawnBefore) + 1 + 2 * n
           /\ SubSeq(DrawnAfter, 1, Len(DrawnBefore)) = DrawnBefore
           /\ boxlist = call.boxes
           /\ trace = <<>>

\* A frame annotated a second time while the other frame holds drawings.
C6_Witness ==
    /\ DrawDone
    /\ DrawnBefore # <<>>
    /\ Len(call.boxes) >= 1
    /\ \E r \in DOMAIN heap \ {call.ref} : heap[r].drawn # <<>>
    /\ heap[call.ref] # call.before[call.ref]

====
